---- MODULE Spec2Model ----
(***************************************************************************)
(* A model of src/src/pc/linux/java/File.cpp: the File_Impl path entity,   *)
(* the host filesystem calls it issues, and the special-directory          *)
(* constructors.                                                           *)
(*                                                                         *)
(* Path strings are sequences of one-character strings; "\\" is the single *)
(* backslash character and "NUL" the terminating zero byte.  The host      *)
(* filesystem is a function from canonical locations (sequences of entry   *)
(* names, <<>> being the root) to nodes.  Every node is accessible (no     *)
(* permission failures) and no call fails for lack of resources.           *)
(***************************************************************************)
EXTENDS Integers, Sequences, FiniteSets, TLC

VARIABLES
    fs,       \* the host filesystem: canonical location -> node
    ents,     \* the caller's entity handles: slot -> File_Impl
    last,     \* the call that returned last, with what it returned
    handles,  \* descriptors and directory handles the component holds open
    calls,    \* how many calls have returned
    buffer,   \* ToPath's static char buffer[PATH_MAX]
    pc,       \* per thread: position inside File::open -> ToPath
    tin,      \* per thread: the path handed to File::open
    wpos,     \* per thread: how many bytes realpath has written so far
    tout,     \* per thread: the u8path of the entity it constructed
    walked    \* the paths a walk to the parents has left behind

vars == <<fs, ents, last, handles, calls, buffer, pc, tin, wpos, tout, walked>>

-----------------------------------------------------------------------------
(* Strings *)

SEP == "/"
BSL == "\\"
NUL == "NUL"

RECURSIVE Join(_)
\* the concatenation of a sequence of strings
Join(ss) == IF ss = <<>> THEN <<>> ELSE Head(ss) \o Join(Tail(ss))

\* std::basic_string::find_last_of: the greatest index holding a character of
\* cs, 0 standing for npos
find_last_of(s, cs) ==
    LET hits == {i \in 1..Len(s) : s[i] \in cs}
    IN  IF hits = {} THEN 0 ELSE CHOOSE i \in hits : \A j \in hits : j <= i

\* std::basic_string::substr(0, n)
substr0(s, n) == SubSeq(s, 1, n)

\* String::toUTF8: one byte per ASCII unit; the one non-ASCII unit of the model,
\* U+00E9, becomes the two bytes C3 A9
EACUTE == "U+00E9"
RECURSIVE toUTF8(_)
toUTF8(s) ==
    IF s = <<>> THEN <<>>
    ELSE (IF Head(s) = EACUTE THEN <<"xC3", "xA9">> ELSE <<Head(s)>>) \o toUTF8(Tail(s))

RECURSIVE fromUTF8(_)
\* String::fromUTF8: the inverse; a lead byte without its continuation byte
\* decodes to the replacement character
fromUTF8(b) ==
    IF b = <<>> THEN <<>>
    ELSE IF Head(b) = "xC3"
         THEN IF Len(b) >= 2 /\ b[2] = "xA9"
              THEN <<EACUTE>> \o fromUTF8(SubSeq(b, 3, Len(b)))
              ELSE <<"U+FFFD">> \o fromUTF8(Tail(b))
    ELSE IF Head(b) = "xA9" THEN <<"U+FFFD">> \o fromUTF8(Tail(b))
    ELSE <<Head(b)>> \o fromUTF8(Tail(b))

-----------------------------------------------------------------------------
(* The host filesystem *)

Dir(sz) == [type |-> "dir", size |-> sz, sec |-> 1, nsec |-> 2000000, target |-> <<>>]
Reg(sz) == [type |-> "reg", size |-> sz, sec |-> 1, nsec |-> 2000000, target |-> <<>>]
Dev == [type |-> "other", size |-> 0, sec |-> 1, nsec |-> 2000000, target |-> <<>>]
Link(t) == [type |-> "link", size |-> Len(t), sec |-> 1, nsec |-> 2000000, target |-> t]

\* nodes made by a call carry the time of the call
NewDir == [type |-> "dir", size |-> 3, sec |-> 2, nsec |-> 5000000, target |-> <<>>]
NewReg == [type |-> "reg", size |-> 0, sec |-> 2, nsec |-> 5000000, target |-> <<>>]

Root == <<>>
\* the working directory of the process
Cwd == Root

\* the longest chain of symbolic links one resolution follows (ELOOP beyond)
MaxSymlinks == 3

Parent(loc) == IF loc = <<>> THEN <<>> ELSE SubSeq(loc, 1, Len(loc) - 1)

IsPrefix(a, b) == Len(a) <= Len(b) /\ SubSeq(b, 1, Len(a)) = a

Children(f, d) == {q \in DOMAIN f : Len(q) = Len(d) + 1 /\ IsPrefix(d, q)}

IsAbsolute(s) == s # <<>> /\ s[1] = SEP
TrailingSlash(s) == s # <<>> /\ s[Len(s)] = SEP

RECURSIVE Components(_)
\* the names between the separators of a path string, empty ones dropped
Components(s) ==
    IF s = <<>> THEN <<>>
    ELSE IF Head(s) = SEP THEN Components(Tail(s))
    ELSE LET seps == {i \in 1..Len(s) : s[i] = SEP}
             n == IF seps = {} THEN Len(s) + 1
                  ELSE CHOOSE i \in seps : \A j \in seps : i <= j
         IN  <<SubSeq(s, 1, n - 1)>> \o Components(SubSeq(s, n, Len(s)))

DOT == <<".">>
DOTDOT == <<".", ".">>

LastIsDot(s) ==
    LET cs == Components(s)
    IN  cs # <<>> /\ cs[Len(cs)] \in {DOT, DOTDOT}

\* the string of a canonical location
CanonString(loc) ==
    IF loc = <<>> THEN <<SEP>>
    ELSE Join([i \in 1..Len(loc) |-> <<SEP>> \o loc[i]])

RECURSIVE Walk(_, _, _, _, _)
\* path resolution from directory cur over the components cs:
\*   [st |-> "ok", at |-> location]               the path names a node
\*   [st |-> "missing", at |-> parent, name |-> n] only the last entry is absent
\*   [st |-> "err"]                                anything else
Walk(f, cur, cs, followLast, fuel) ==
    IF cs = <<>> THEN [st |-> "ok", at |-> cur, name |-> <<>>]
    ELSE IF f[cur].type # "dir" THEN [st |-> "err", at |-> cur, name |-> <<>>]
    ELSE LET c == Head(cs)
             rest == Tail(cs)
             nxt == Append(cur, c)
         IN  IF c = DOT THEN Walk(f, cur, rest, followLast, fuel)
             ELSE IF c = DOTDOT THEN Walk(f, Parent(cur), rest, followLast, fuel)
             ELSE IF nxt \notin DOMAIN f
                  THEN IF rest = <<>>
                       THEN [st |-> "missing", at |-> cur, name |-> c]
                       ELSE [st |-> "err", at |-> cur, name |-> <<>>]
             ELSE IF f[nxt].type = "link" /\ (rest # <<>> \/ followLast)
                  THEN IF fuel = 0 THEN [st |-> "err", at |-> cur, name |-> <<>>]
                       ELSE LET t == f[nxt].target
                            IN  IF t = <<>>
                                THEN [st |-> "err", at |-> cur, name |-> <<>>]
                                ELSE Walk(f, IF IsAbsolute(t) THEN Root ELSE cur,
                                          Components(t) \o rest, followLast, fuel - 1)
             ELSE Walk(f, nxt, rest, followLast, fuel)

\* the host's lookup of path string s; a trailing separator asks for a directory
Lookup(f, s, follow) ==
    IF s = <<>> THEN [st |-> "err", at |-> Root, name |-> <<>>]
    ELSE LET r == Walk(f, IF IsAbsolute(s) THEN Root ELSE Cwd, Components(s),
                       follow \/ TrailingSlash(s), MaxSymlinks)
         IN  IF r.st = "ok" /\ TrailingSlash(s) /\ f[r.at].type # "dir"
             THEN [st |-> "err", at |-> r.at, name |-> <<>>]
             ELSE r

Without(f, loc) == [q \in DOMAIN f \ {loc} |-> f[q]]
With(f, loc, node) == [q \in DOMAIN f \cup {loc} |-> IF q = loc THEN node ELSE f[q]]

\* ::stat: the node the path resolves to, links followed
sys_stat(f, s) ==
    LET r == Lookup(f, s, TRUE)
    IN  IF r.st = "ok" THEN [ok |-> TRUE, node |-> f[r.at]]
        ELSE [ok |-> FALSE, node |-> Dev]

\* ::realpath: the canonical string of an existing path
sys_realpath(f, s) ==
    LET r == Lookup(f, s, TRUE)
    IN  IF r.st = "ok" THEN [ok |-> TRUE, str |-> CanonString(r.at)]
        ELSE [ok |-> FALSE, str |-> <<>>]

\* ::open(path, flags): creat, trunc and write are the flags that matter
sys_open(f, s, creat, trunc, write) ==
    LET r == Lookup(f, s, TRUE)
    IN  IF r.st = "ok"
        THEN IF f[r.at].type = "dir"
             THEN [ok |-> ~write, fs |-> f]
             ELSE IF f[r.at].type = "reg" /\ trunc
                  THEN [ok |-> TRUE,
                        fs |-> With(f, r.at, [f[r.at] EXCEPT !.size = 0, !.sec = NewReg.sec,
                                                            !.nsec = NewReg.nsec])]
                  ELSE [ok |-> TRUE, fs |-> f]
        ELSE IF r.st = "missing" /\ creat /\ ~TrailingSlash(s)
             THEN [ok |-> TRUE, fs |-> With(f, Append(r.at, r.name), NewReg)]
             ELSE [ok |-> FALSE, fs |-> f]

\* ::mkdir
sys_mkdir(f, s) ==
    LET r == Lookup(f, s, FALSE)
    IN  IF r.st = "missing"
        THEN [ok |-> TRUE, fs |-> With(f, Append(r.at, r.name), NewDir)]
        ELSE [ok |-> FALSE, fs |-> f]

\* ::rmdir
sys_rmdir(f, s) ==
    LET r == Lookup(f, s, FALSE)
    IN  IF /\ r.st = "ok"
           /\ f[r.at].type = "dir"
           /\ r.at # Root
           /\ ~LastIsDot(s)
           /\ Children(f, r.at) = {}
        THEN [ok |-> TRUE, fs |-> Without(f, r.at)]
        ELSE [ok |-> FALSE, fs |-> f]

\* ::unlink
sys_unlink(f, s) ==
    LET r == Lookup(f, s, FALSE)
    IN  IF r.st = "ok" /\ f[r.at].type # "dir"
        THEN [ok |-> TRUE, fs |-> Without(f, r.at)]
        ELSE [ok |-> FALSE, fs |-> f]

\* the subtree at src re-rooted at dst, whatever was at dst replaced
MoveTree(f, src, dst) ==
    LET moved == {q \in DOMAIN f : IsPrefix(src, q)}
        to(q) == dst \o SubSeq(q, Len(src) + 1, Len(q))
        kept == (DOMAIN f \ moved) \ {dst}
    IN  [q \in kept \cup {to(m) : m \in moved} |->
            IF q \in kept THEN f[q]
            ELSE f[CHOOSE m \in moved : to(m) = q]]

\* ::rename
sys_rename(f, old, new) ==
    LET o == Lookup(f, old, FALSE)
        n == Lookup(f, new, FALSE)
        src == o.at
        dst == IF n.st = "ok" THEN n.at ELSE Append(n.at, n.name)
        srcDir == f[src].type = "dir"
        fail == [ok |-> FALSE, fs |-> f]
    IN  IF o.st # "ok" \/ n.st = "err" \/ src = Root THEN fail
        ELSE IF LastIsDot(old) \/ LastIsDot(new) THEN fail
        ELSE IF dst = src THEN [ok |-> TRUE, fs |-> f]
        ELSE IF IsPrefix(src, dst) THEN fail
        ELSE IF n.st = "ok"
             THEN IF srcDir
                  THEN IF f[dst].type = "dir" /\ Children(f, dst) = {} /\ dst # Root
                       THEN [ok |-> TRUE, fs |-> MoveTree(f, src, dst)]
                       ELSE fail
                  ELSE IF f[dst].type = "dir" THEN fail
                       ELSE [ok |-> TRUE, fs |-> MoveTree(f, src, dst)]
        ELSE IF ~srcDir /\ TrailingSlash(new) THEN fail
             ELSE [ok |-> TRUE, fs |-> MoveTree(f, src, dst)]

\* ::readlink(path, buf, bufsiz): at most bufsiz bytes of the link's target and
\* their number (no terminating zero), or -1
sys_readlink(f, s, bufsiz) ==
    LET r == Lookup(f, s, FALSE)
    IN  IF r.st = "ok" /\ f[r.at].type = "link"
        THEN LET t == f[r.at].target
                 n == IF Len(t) < bufsiz THEN Len(t) ELSE bufsiz
             IN  [n |-> n, bytes |-> SubSeq(t, 1, n)]
        ELSE [n |-> -1, bytes |-> <<>>]

\* ::opendir
sys_opendir(f, s) ==
    LET r == Lookup(f, s, TRUE)
    IN  IF r.st = "ok" /\ f[r.at].type = "dir"
        THEN [ok |-> TRUE, at |-> r.at, held |-> 1]
        ELSE [ok |-> FALSE, at |-> Root, held |-> 0]

\* ::closedir: the handle is released
sys_closedir(dir) == dir.held - 1

RECURSIVE Orders(_)
\* every order in which the elements of a finite set can be listed
Orders(S) ==
    IF S = {} THEN {<<>>}
    ELSE UNION {{<<x>> \o o : o \in Orders(S \ {x})} : x \in S}

\* readdir until it returns null: the entry names of the directory, "." and ".."
\* among them, in an order the host chooses
sys_readdir(f, at) ==
    Orders({DOT, DOTDOT} \cup {q[Len(q)] : q \in Children(f, at)})

-----------------------------------------------------------------------------
(* File_Impl *)

\* ToPath without the test of realpath's result: the buffer is returned even
\* when realpath has failed
ToPath_unchecked(f, path) == sys_realpath(f, toUTF8(path)).str

\* ToPath, its static buffer written and read back without interruption
ToPath(f, path) ==
    LET u8path == toUTF8(path)
        r == sys_realpath(f, u8path)
    IN  IF ~r.ok THEN u8path ELSE r.str

FromPath(path) == fromUTF8(path)

\* File_Impl::File_Impl(path)
File_Impl(f, path) ==
    LET u8path == ToPath(f, path)
    IN  [live |-> TRUE, u8path |-> u8path, path |-> FromPath(u8path)]

\* a slot holding no entity
NoFile == [live |-> FALSE, u8path |-> <<>>, path |-> <<>>]

\* createNewFile opening with O_TRUNC as well
createNewFile_trunc(f, e) ==
    LET fd == sys_open(f, e.u8path, TRUE, TRUE, TRUE)
    IN  [ret |-> fd.ok, fs |-> fd.fs]

createNewFile(f, e) ==
    LET fd == sys_open(f, e.u8path, TRUE, FALSE, TRUE)
    IN  [ret |-> fd.ok, fs |-> fd.fs]

exists(f, e) == sys_stat(f, e.u8path).ok

\* isDirectory without the S_ISDIR test
isDirectory_anyNode(f, e) == sys_stat(f, e.u8path).ok

isDirectory(f, e) ==
    LET st == sys_stat(f, e.u8path)
    IN  IF ~st.ok THEN FALSE ELSE st.node.type = "dir"

isFile(f, e) ==
    LET st == sys_stat(f, e.u8path)
    IN  IF ~st.ok THEN FALSE ELSE st.node.type = "reg"

lastModified(f, e) ==
    LET st == sys_stat(f, e.u8path)
    IN  IF ~st.ok THEN 0 ELSE st.node.sec * 1000 + st.node.nsec \div 1000000

length(f, e) ==
    LET st == sys_stat(f, e.u8path)
    IN  IF ~st.ok THEN 0 ELSE st.node.size

\* remove without the dispatch on the type: always ::unlink
remove_unlinkOnly(f, e) ==
    LET r == sys_unlink(f, e.u8path)
    IN  [ret |-> r.ok, fs |-> r.fs]

remove(f, e) ==
    LET r == IF isDirectory(f, e) THEN sys_rmdir(f, e.u8path) ELSE sys_unlink(f, e.u8path)
    IN  [ret |-> r.ok, fs |-> r.fs]

\* renameTo with the two paths handed to ::rename in the wrong order
renameTo_swapped(f, e, dest) ==
    LET r == sys_rename(f, dest.u8path, e.u8path)
    IN  [ret |-> r.ok, fs |-> r.fs]

renameTo(f, e, dest) ==
    LET r == sys_rename(f, e.u8path, dest.u8path)
    IN  [ret |-> r.ok, fs |-> r.fs]

mkdir(f, e) ==
    LET r == sys_mkdir(f, e.u8path)
    IN  [ret |-> r.ok, fs |-> r.fs]

RECURSIVE listEntries_keepDotDot(_, _, _)
\* the loop of listFiles skipping "." only
listEntries_keepDotDot(f, e, entries) ==
    IF entries = <<>> THEN <<>>
    ELSE IF Head(entries) = DOT
         THEN listEntries_keepDotDot(f, e, Tail(entries))
    ELSE LET child_path == e.u8path \o <<SEP>> \o Head(entries)
         IN  <<File_Impl(f, FromPath(child_path))>>
                 \o listEntries_keepDotDot(f, e, Tail(entries))

RECURSIVE listEntries(_, _, _)
\* the loop of listFiles over the entries readdir yields
listEntries(f, e, entries) ==
    IF entries = <<>> THEN <<>>
    ELSE IF Head(entries) = DOT \/ Head(entries) = DOTDOT
         THEN listEntries(f, e, Tail(entries))
    ELSE LET child_path == e.u8path \o <<SEP>> \o Head(entries)
         IN  <<File_Impl(f, FromPath(child_path))>> \o listEntries(f, e, Tail(entries))

\* what listFiles may return, and the handles it leaves open: one result per
\* order readdir may choose
listFiles(f, e) ==
    IF ~isDirectory(f, e) THEN {[files |-> <<>>, held |-> 0]}
    ELSE LET dir == sys_opendir(f, e.u8path)
         IN  IF ~dir.ok THEN {[files |-> <<>>, held |-> 0]}
             ELSE {[files |-> listEntries(f, e, entries), held |-> sys_closedir(dir)] :
                      entries \in sys_readdir(f, dir.at)}

getParentFile(f, e) ==
    LET npos == find_last_of(e.path, {SEP, BSL})
    IN  IF npos # 0 THEN File_Impl(f, substr0(e.path, npos - 1))
        ELSE File_Impl(f, <<>>)

toStreamIn(f, e) ==
    LET is == sys_open(f, e.u8path, FALSE, FALSE, FALSE)
    IN  [ret |-> IF ~is.ok THEN "null" ELSE "stream", fs |-> is.fs]

\* toStreamOut without the is_open test: the stream is returned as it is
toStreamOut_unchecked(f, e) ==
    LET os == sys_open(f, e.u8path, TRUE, TRUE, TRUE)
    IN  [ret |-> "stream", fs |-> os.fs]

toStreamOut(f, e) ==
    LET os == sys_open(f, e.u8path, TRUE, TRUE, TRUE)
    IN  [ret |-> IF ~os.ok THEN "null" ELSE "stream", fs |-> os.fs]

\* File::open(path)
open(f, path) == File_Impl(f, path)

\* File::open(parent, child)
openChild(f, parent, child) ==
    LET new_path == parent.path \o <<SEP>> \o child
    IN  File_Impl(f, new_path)

\* sizeof(path) for the char* path of openResourceDirectory (an LP64 build)
SizeofPath == 8

RESOURCE == <<SEP, "r", "e", "s", "o", "u", "r", "c", "e">>
PROC_SELF_EXE == <<SEP, "p", "r", "o", "c", SEP, "s", "e", "l", "f", SEP, "e", "x", "e">>

\* File::openResourceDirectory, the branch built when __APPLE__ is not defined.
\* length (len here) is unsigned: readlink's -1 is stored as the greatest value of the
\* type, which the comparison with -1 converts -1 to as well, so the test is
\* true exactly when readlink returned -1
openResourceDirectory(f) ==
    LET rl == sys_readlink(f, PROC_SELF_EXE, SizeofPath - 1)
        len == rl.n
    IN  IF len = -1 THEN File_Impl(f, <<>>)
        ELSE LET path == rl.bytes
                 u16str == FromPath(path)
                 pos == find_last_of(u16str, {SEP})
             IN  IF pos = 0 THEN File_Impl(f, <<>>)
                 ELSE File_Impl(f, substr0(u16str, pos - 1) \o RESOURCE)

-----------------------------------------------------------------------------
(* The calls a single-threaded caller makes *)

\* the entity handles the caller keeps: a call takes at most two entities
Slots == {1, 2}

\* the number of calls a run makes
MaxCalls == 3

PROC == <<"p", "r", "o", "c">>
SELF == <<"s", "e", "l", "f">>
EXE == <<"e", "x", "e">>

\* a host with /proc mounted, the running executable being exe
Host(exe) ==
    (Root :> Dir(3)) @@ (<<PROC>> :> Dir(3)) @@ (<<PROC, SELF>> :> Dir(3))
    @@ (<<PROC, SELF, EXE>> :> Link(exe))

BIN_GAME == <<SEP, "b", "i", "n", SEP, "g">>

\* the filesystems a run may start from
InitFileSystems ==
    { Host(BIN_GAME),
      Host(BIN_GAME) @@ (<<<<"a">>>> :> Dir(3)) @@ (<<<<"a">>, <<"b">>>> :> Reg(2))
                     @@ (<<<<"b">>>> :> Reg(1)),
      Host(BIN_GAME) @@ (<<<<"a">>>> :> Dir(3)) @@ (<<<<"b">>>> :> Dev) }

\* the paths the caller opens
InputPaths ==
    { <<>>, <<SEP>>, <<SEP, "a">>, <<"b">>, <<SEP, "a", SEP, "b">>,
      <<SEP, "a", SEP>>, <<SEP, "a", SEP, SEP, "b">>, <<"a", BSL, "b">>,
      <<SEP, "b", SEP, "a">>, <<SEP, EACUTE>> }

\* the child names the caller joins to a parent
ChildNames == { <<"a">>, <<"b">> }

\* the record of a call: the entity it was made on (self), its other entity
\* (the destination of a rename, the entity a constructor made), what it
\* returned (ret, val, files), for a constructor the path handed in (arg) and
\* whether that path existed (found), whether the call before it constructed
\* self for a path that did not exist (fresh), and the filesystem it found (pre)
NoCall ==
    [op |-> "none", self |-> 0, other |-> 0, ret |-> FALSE, val |-> 0, arg |-> <<>>,
     found |-> FALSE, fresh |-> FALSE, files |-> <<>>, pre |-> <<>>]

Init ==
    /\ fs \in InitFileSystems
    /\ ents = [i \in Slots |-> NoFile]
    /\ last = NoCall
    /\ handles = 0
    /\ calls = 0
    /\ buffer = <<>>
    /\ pc = <<>>
    /\ tin = <<>>
    /\ wpos = <<>>
    /\ tout = <<>>
    /\ walked = {}

\* what the single-threaded calls leave alone
threadVars == <<buffer, pc, tin, wpos, tout, walked>>

\* the part of a call record every call fills the same way
Call(op, i, j) ==
    [NoCall EXCEPT !.op = op, !.self = i, !.other = j, !.pre = fs,
                   !.fresh = /\ last.op \in {"open", "openChild", "getParentFile"}
                             /\ last.other = i
                             /\ ~last.found]

Returns == calls < MaxCalls /\ calls' = calls + 1

\* f = File::open(path), kept in slot i
Open(i, path) ==
    /\ Returns
    /\ ents' = [ents EXCEPT ![i] = open(fs, path)]
    /\ last' = [Call("open", 0, i) EXCEPT !.arg = path,
                                         !.found = sys_realpath(fs, toUTF8(path)).ok]
    /\ UNCHANGED <<fs, handles, threadVars>>

\* f = File::open(*ents[j], child), kept in slot i
OpenChild(i, j, child) ==
    /\ Returns
    /\ ents[j].live
    /\ ents' = [ents EXCEPT ![i] = openChild(fs, ents[j], child)]
    /\ last' = [Call("openChild", j, i) EXCEPT
                    !.arg = ents[j].path \o <<SEP>> \o child,
                    !.found = sys_realpath(fs, toUTF8(ents[j].path \o <<SEP>> \o child)).ok]
    /\ UNCHANGED <<fs, handles, threadVars>>

\* f = ents[i]->getParentFile(), kept in slot k
GetParentFile(i, k) ==
    /\ Returns
    /\ ents[i].live
    /\ ents' = [ents EXCEPT ![k] = getParentFile(fs, ents[i])]
    /\ LET npos == find_last_of(ents[i].path, {SEP, BSL})
           arg == IF npos # 0 THEN substr0(ents[i].path, npos - 1) ELSE <<>>
       IN  last' = [Call("getParentFile", i, k) EXCEPT
                        !.arg = arg, !.found = sys_realpath(fs, toUTF8(arg)).ok]
    /\ UNCHANGED <<fs, handles, threadVars>>

\* a call that returns a bool and may change the filesystem
Mutate(op, i, j, r) ==
    /\ Returns
    /\ fs' = r.fs
    /\ last' = [Call(op, i, j) EXCEPT !.ret = r.ret]
    /\ UNCHANGED <<ents, handles, threadVars>>

CreateNewFile(i) ==
    ents[i].live /\ Mutate("createNewFile", i, 0, createNewFile(fs, ents[i]))

Remove(i) ==
    ents[i].live /\ Mutate("remove", i, 0, remove(fs, ents[i]))

RenameTo(i, j) ==
    ents[i].live /\ ents[j].live /\ Mutate("renameTo", i, j, renameTo(fs, ents[i], ents[j]))

Mkdir(i) ==
    ents[i].live /\ Mutate("mkdir", i, 0, mkdir(fs, ents[i]))

\* the stream, when there is one, is the caller's from here on
ToStreamIn(i) ==
    /\ ents[i].live
    /\ LET r == toStreamIn(fs, ents[i])
       IN  Mutate("toStreamIn", i, 0, [ret |-> r.ret # "null", fs |-> r.fs])

ToStreamOut(i) ==
    /\ ents[i].live
    /\ LET r == toStreamOut(fs, ents[i])
       IN  Mutate("toStreamOut", i, 0, [ret |-> r.ret # "null", fs |-> r.fs])

ListFiles(i) ==
    /\ Returns
    /\ ents[i].live
    /\ \E r \in listFiles(fs, ents[i]) :
          /\ last' = [Call("listFiles", i, 0) EXCEPT !.files = r.files]
          /\ handles' = handles + r.held
    /\ UNCHANGED <<fs, ents, threadVars>>

\* a query: nothing changes but the record of what it returned
Query(op, i, ret, val) ==
    /\ Returns
    /\ ents[i].live
    /\ last' = [Call(op, i, 0) EXCEPT !.ret = ret, !.val = val]
    /\ UNCHANGED <<fs, ents, handles, threadVars>>

Exists(i) == Query("exists", i, exists(fs, ents[i]), 0)
IsDirectory(i) == Query("isDirectory", i, isDirectory(fs, ents[i]), 0)
IsFile(i) == Query("isFile", i, isFile(fs, ents[i]), 0)
LastModified(i) == Query("lastModified", i, FALSE, lastModified(fs, ents[i]))
Length(i) == Query("length", i, FALSE, length(fs, ents[i]))

Next ==
    \/ \E i \in Slots, path \in InputPaths : Open(i, path)
    \/ \E i, j \in Slots, child \in ChildNames : OpenChild(i, j, child)
    \/ \E i, k \in Slots : GetParentFile(i, k)
    \/ \E i \in Slots : CreateNewFile(i)
    \/ \E i \in Slots : Remove(i)
    \/ \E i, j \in Slots : RenameTo(i, j)
    \/ \E i \in Slots : Mkdir(i)
    \/ \E i \in Slots : ToStreamIn(i)
    \/ \E i \in Slots : ToStreamOut(i)
    \/ \E i \in Slots : ListFiles(i)
    \/ \E i \in Slots : Exists(i)
    \/ \E i \in Slots : IsDirectory(i)
    \/ \E i \in Slots : IsFile(i)
    \/ \E i \in Slots : LastModified(i)
    \/ \E i \in Slots : Length(i)

Spec == Init /\ [][Next]_vars

-----------------------------------------------------------------------------
(* A caller walking up: f = File::open(path), then f = f->getParentFile()     *)
(* for as long as it pleases.  The filesystem does not change meanwhile.      *)

L_G == <<"l", BSL, "g">>

\* hosts with symbolic links: /d/l -> l\g/x beside the directory /d/l\g, and
\* /l -> /a/b
ParentFileSystems ==
    { Host(BIN_GAME) @@ (<<<<"a">>>> :> Dir(3)) @@ (<<<<"a">>, <<"b">>>> :> Reg(2))
                     @@ (<<<<"b">>>> :> Reg(1)),
      Host(BIN_GAME) @@ (<<<<"a">>>> :> Dir(3)) @@ (<<<<"a">>, <<"b">>>> :> Dir(3))
                     @@ (<<<<"l">>>> :> Link(<<SEP, "a", SEP, "b">>)),
      Host(BIN_GAME) @@ (<<<<"d">>>> :> Dir(3)) @@ (<<<<"d">>, L_G>> :> Dir(3))
                     @@ (<<<<"d">>, L_G, <<"x">>>> :> Reg(1))
                     @@ (<<<<"d">>, <<"l">>>> :> Link(L_G \o <<SEP, "x">>)) }

\* the paths the walk starts from
ParentInputs ==
    { <<>>, <<SEP>>, <<"a">>, <<SEP, "a">>, <<"a", SEP, "b">>, <<SEP, "a", SEP, "b">>,
      <<SEP, "a", SEP, "b", SEP, "c", SEP, "d">>, <<"c", SEP, "c", SEP, "c">>,
      <<SEP, "a", SEP, SEP, "b", SEP>>, <<"a", BSL, "b">>, <<".">>, <<".", ".">>,
      <<"a", SEP, ".", ".", SEP, "b">>, <<SEP, "a", SEP, ".", SEP, "b">>,
      <<SEP, "l">>, <<"l", SEP, "c">>, <<SEP, "l", SEP, ".", ".", SEP, "b">>,
      <<"d", SEP, "l">>, <<SEP, "d", SEP, "l", BSL, "g", SEP, "x">>,
      <<SEP, "d", SEP, "l", BSL, "g">>, <<SEP, "d", SEP, "x", BSL, "y", BSL, "z">>,
      <<SEP, EACUTE, SEP, "a">> }

InitParent ==
    /\ fs \in ParentFileSystems
    /\ ents = [i \in Slots |-> NoFile]
    /\ last = NoCall
    /\ handles = 0
    /\ calls = 0
    /\ buffer = <<>>
    /\ pc = <<>>
    /\ tin = <<>>
    /\ wpos = <<>>
    /\ tout = <<>>
    /\ walked = {}

\* f = File::open(path)
StartAt(path) ==
    /\ ~ents[1].live
    /\ ents' = [ents EXCEPT ![1] = open(fs, path)]
    /\ last' = [NoCall EXCEPT !.op = "open", !.other = 1, !.arg = path,
                              !.found = sys_realpath(fs, toUTF8(path)).ok]
    /\ UNCHANGED <<fs, handles, calls, threadVars>>

\* f = f->getParentFile()
Climb ==
    /\ ents[1].live
    /\ ents' = [ents EXCEPT ![1] = getParentFile(fs, ents[1])]
    /\ last' = [NoCall EXCEPT !.op = "getParentFile", !.self = 1, !.other = 1]
    /\ walked' = walked \cup {ents[1].path}
    /\ UNCHANGED <<fs, handles, calls, buffer, pc, tin, wpos, tout>>

NextParent ==
    \/ \E path \in ParentInputs : StartAt(path)
    \/ Climb

SpecParent == InitParent /\ [][NextParent]_vars

-----------------------------------------------------------------------------
(* The resource directory *)

USR_BIN == <<SEP, "u", "s", "r", SEP, "b", "i", "n">>

\* the places the running executable may be at, from 2 to 16 bytes long
ExePaths ==
    { <<SEP, "g">>, <<SEP, "b", SEP, "g">>, BIN_GAME, BIN_GAME \o <<"a">>,
      BIN_GAME \o <<"a", "m">>, BIN_GAME \o <<"a", "m", "e">>,
      USR_BIN \o <<SEP, "g">>, USR_BIN \o <<SEP, "g", "a", "m", "e">>,
      <<SEP, "o", "p", "t", SEP, "m", "c", SEP, "b", "i", "n", SEP, "g", "a", "m", "e">> }

\* the directory part of the executable's path
ExeDir(exe) == substr0(exe, find_last_of(exe, {SEP}) - 1)

RECURSIVE MkdirAll(_, _, _)
\* the filesystem with every directory down to loc made
MkdirAll(f, loc, n) ==
    IF n > Len(loc) THEN f
    ELSE MkdirAll(With(f, SubSeq(loc, 1, n), Dir(3)), loc, n + 1)

\* hosts where the executable is at exe, with or without a resource directory
\* beside it, and a host where /proc is not mounted
ResFileSystems ==
    {Host(exe) : exe \in ExePaths}
    \cup {MkdirAll(Host(exe), Components(ExeDir(exe) \o RESOURCE), 1) : exe \in ExePaths}
    \cup {(Root :> Dir(3))}

InitRes ==
    /\ fs \in ResFileSystems
    /\ ents = [i \in Slots |-> NoFile]
    /\ last = NoCall
    /\ handles = 0
    /\ calls = 0
    /\ buffer = <<>>
    /\ pc = <<>>
    /\ tin = <<>>
    /\ wpos = <<>>
    /\ tout = <<>>
    /\ walked = {}

\* f = File::openResourceDirectory(), kept in slot i
OpenResourceDirectory(i) ==
    /\ Returns
    /\ ents' = [ents EXCEPT ![i] = openResourceDirectory(fs)]
    /\ last' = Call("openResourceDirectory", 0, i)
    /\ UNCHANGED <<fs, handles, threadVars>>

\* the caller validates what it got and makes the directory when it is missing
NextRes ==
    \/ \E i \in Slots : OpenResourceDirectory(i)
    \/ \E i \in Slots : Exists(i)
    \/ \E i \in Slots : Mkdir(i)

SpecRes == InitRes /\ [][NextRes]_vars

-----------------------------------------------------------------------------
(* Two threads, each constructing an entity of its own: File::open(tin[t])    *)
(* runs File_Impl's constructor, which runs ToPath.  realpath fills ToPath's  *)
(* static buffer byte by byte, the terminating zero last; std::string(buffer) *)
(* then copies the bytes up to the first zero.  The buffer is the program's   *)
(* only state the two constructions share.                                    *)

Threads == {1, 2}

\* the existing paths the threads open
ThreadInputs ==
    { <<SEP>>, <<SEP, "a">>, <<"b">>, <<SEP, "a", SEP, "b">>, <<SEP, "a", SEP, SEP, "b">> }

ThreadFileSystem ==
    Host(BIN_GAME) @@ (<<<<"a">>>> :> Dir(3)) @@ (<<<<"a">>, <<"b">>>> :> Reg(2))
                   @@ (<<<<"b">>>> :> Reg(1))

InitThreads ==
    /\ fs = ThreadFileSystem
    /\ ents = [i \in Slots |-> NoFile]
    /\ last = NoCall
    /\ handles = 0
    /\ calls = 0
    /\ buffer = <<>>
    /\ tin \in {in \in [Threads -> ThreadInputs] : in[1] # in[2]}
    /\ pc = [t \in Threads |-> "open"]
    /\ wpos = [t \in Threads |-> 0]
    /\ tout = [t \in Threads |-> <<>>]
    /\ walked = {}

\* the bytes of a static buffer up to its first zero; static storage is zero
\* where nothing has been written
CString(buf) ==
    LET zeros == {i \in 1..Len(buf) : buf[i] = NUL}
        n == IF zeros = {} THEN Len(buf)
             ELSE (CHOOSE i \in zeros : \A j \in zeros : i <= j) - 1
    IN  SubSeq(buf, 1, n)

\* buf with byte b stored at index i, which is at most one past what is written
Store(buf, i, b) == IF i = Len(buf) + 1 THEN Append(buf, b) ELSE [buf EXCEPT ![i] = b]

\* thread t enters ToPath: realpath resolves the path, and fails without
\* touching the buffer when it names nothing
EnterToPath(t) ==
    /\ pc[t] = "open"
    /\ IF sys_realpath(fs, toUTF8(tin[t])).ok
       THEN pc' = [pc EXCEPT ![t] = "realpath"] /\ UNCHANGED tout
       ELSE pc' = [pc EXCEPT ![t] = "done"] /\ tout' = [tout EXCEPT ![t] = toUTF8(tin[t])]
    /\ UNCHANGED <<fs, ents, last, handles, calls, buffer, tin, wpos, walked>>

\* realpath of thread t stores its next byte in the buffer
RealpathStore(t) ==
    /\ pc[t] = "realpath"
    /\ LET out == sys_realpath(fs, toUTF8(tin[t])).str \o <<NUL>>
       IN  /\ buffer' = Store(buffer, wpos[t] + 1, out[wpos[t] + 1])
           /\ wpos' = [wpos EXCEPT ![t] = wpos[t] + 1]
           /\ pc' = [pc EXCEPT ![t] = IF wpos[t] + 1 = Len(out) THEN "copy" ELSE "realpath"]
    /\ UNCHANGED <<fs, ents, last, handles, calls, tin, tout, walked>>

\* return std::string(buffer): the entity of thread t has its u8path
ReturnBuffer(t) ==
    /\ pc[t] = "copy"
    /\ tout' = [tout EXCEPT ![t] = CString(buffer)]
    /\ pc' = [pc EXCEPT ![t] = "done"]
    /\ UNCHANGED <<fs, ents, last, handles, calls, buffer, tin, wpos, walked>>

NextThreads ==
    \/ \E t \in Threads : EnterToPath(t)
    \/ \E t \in Threads : RealpathStore(t)
    \/ \E t \in Threads : ReturnBuffer(t)

SpecThreads == InitThreads /\ [][NextThreads]_vars

-----------------------------------------------------------------------------
(* Properties of the single-threaded calls *)

Constructors == {"open", "openChild", "getParentFile"}

\* the last call constructed an entity, which the caller holds
Constructed == last.op \in Constructors /\ last.other \in Slots

\* the location a path string names, links followed (Root when it names none)
NodeOf(f, s) == Lookup(f, s, TRUE).at
Names(f, s) == Lookup(f, s, TRUE).st = "ok"

\* the parent directory of the path's last component exists
ParentDirExists(f, s) ==
    LET cs == Components(s)
    IN  /\ cs # <<>>
        /\ LET r == Walk(f, IF IsAbsolute(s) THEN Root ELSE Cwd,
                         SubSeq(cs, 1, Len(cs) - 1), TRUE, MaxSymlinks)
           IN  r.st = "ok" /\ f[r.at].type = "dir"

\* C4: an entity constructed for a path that exists reports that it exists, never
\* reports both a directory and a regular file, and reports a directory exactly
\* when the node the path names is one and a regular file exactly when it is one
C4_ExistingPathReportsNodeType ==
    (Constructed /\ Names(fs, toUTF8(last.arg))) =>
        LET e == ents[last.other]
            node == fs[NodeOf(fs, toUTF8(last.arg))]
        IN  /\ exists(fs, e)
            /\ ~(isDirectory(fs, e) /\ isFile(fs, e))
            /\ isDirectory(fs, e) <=> (node.type = "dir")
            /\ isFile(fs, e) <=> (node.type = "reg")

C4_Witness ==
    /\ last.op = "open"
    /\ Names(fs, toUTF8(last.arg))
    /\ fs[NodeOf(fs, toUTF8(last.arg))].type = "other"
    /\ ~isDirectory(fs, ents[last.other])
    /\ ~isFile(fs, ents[last.other])

\* the two entities name one and the same directory entry
SameEntry(f, a, b) ==
    LET x == Lookup(f, a.u8path, FALSE)
        y == Lookup(f, b.u8path, FALSE)
    IN  x.st = "ok" /\ y.st = "ok" /\ x.at = y.at

\* C1 as stated: whatever S and D are, when S.renameTo(D) returns true, S no
\* longer exists, D exists and D's length is the length S had before the call
C1_RenameMovesAnyPair ==
    (last.op = "renameTo" /\ last.ret) =>
        LET S == ents[last.self]
            D == ents[last.other]
        IN  /\ ~exists(fs, S)
            /\ exists(fs, D)
            /\ length(fs, D) = length(last.pre, S)

\* C1 amended: when S and D do not name the same directory entry and
\* S.renameTo(D) returns true, S no longer exists, D exists and D's length is
\* the length S had before the call
C1_RenameMovesDistinctEntries ==
    (last.op = "renameTo" /\ last.ret
        /\ ~SameEntry(last.pre, ents[last.self], ents[last.other])) =>
        LET S == ents[last.self]
            D == ents[last.other]
        IN  /\ ~exists(fs, S)
            /\ exists(fs, D)
            /\ length(fs, D) = length(last.pre, S)

C1_Witness ==
    /\ last.op = "renameTo"
    /\ last.ret
    /\ ~SameEntry(last.pre, ents[last.self], ents[last.other])
    /\ isFile(last.pre, ents[last.self])
    /\ length(last.pre, ents[last.self]) > 0
    /\ exists(fs, ents[last.other])

\* C2 as stated: createNewFile on a path that does not exist and whose parent
\* directory exists returns true and the entity exists afterwards; on an existing
\* regular file it returns true and leaves the length unchanged
C2_CreateNewFileOpensOrCreates ==
    last.op = "createNewFile" =>
        LET e == ents[last.self]
        IN  /\ (~exists(last.pre, e) /\ ParentDirExists(last.pre, e.u8path)) =>
                    (last.ret /\ exists(fs, e))
            /\ isFile(last.pre, e) =>
                    (last.ret /\ length(fs, e) = length(last.pre, e))

\* C2 amended: the same, for a path that does not end in a path separator
C2_CreateNewFileOpensOrCreatesPlainPath ==
    last.op = "createNewFile" =>
        LET e == ents[last.self]
        IN  /\ (/\ ~exists(last.pre, e)
                /\ ParentDirExists(last.pre, e.u8path)
                /\ ~TrailingSlash(e.u8path)) =>
                    (last.ret /\ exists(fs, e))
            /\ isFile(last.pre, e) =>
                    (last.ret /\ length(fs, e) = length(last.pre, e))

\* a second createNewFile on a file that has content
C2_Witness ==
    /\ last.op = "createNewFile"
    /\ last.ret
    /\ isFile(last.pre, ents[last.self])
    /\ length(fs, ents[last.self]) > 0

\* what C3 says of an entity just constructed for a path that does not exist
C3_FreshEntity ==
    (Constructed /\ ~Names(fs, toUTF8(last.arg))) =>
        LET e == ents[last.other]
        IN  /\ e.live
            /\ e.u8path = toUTF8(last.arg)
            /\ ~exists(fs, e)
            /\ ~isDirectory(fs, e)
            /\ ~isFile(fs, e)
            /\ length(fs, e) = 0
            /\ lastModified(fs, e) = 0

LastName(s) == LET cs == Components(s) IN IF cs = <<>> THEN <<>> ELSE cs[Len(cs)]

EndsWith(s, t) == Len(t) <= Len(s) /\ SubSeq(s, Len(s) - Len(t) + 1, Len(s)) = t

\* C5: listFiles on a directory returns exactly one entity per entry of the
\* directory other than "." and "..", and on anything else the empty sequence;
\* it leaves no handle open and the filesystem as it found it; and once mkdir
\* has succeeded on a child of a directory, listFiles on an entity for that
\* directory includes an entity whose path ends with the child's name
C5_ListFilesListsTheEntries ==
    /\ last.op = "listFiles" =>
            LET e == ents[last.self]
                kids == Children(fs, NodeOf(fs, e.u8path))
            IN  /\ isDirectory(fs, e) =>
                        /\ Len(last.files) = Cardinality(kids)
                        /\ \A c \in kids :
                              \E k \in 1..Len(last.files) :
                                  /\ Names(fs, last.files[k].u8path)
                                  /\ NodeOf(fs, last.files[k].u8path) = c
                /\ ~isDirectory(fs, e) => last.files = <<>>
                /\ handles = 0
                /\ fs = last.pre
    /\ (last.op = "mkdir" /\ last.ret) =>
            LET D == ents[last.self]
                made == NodeOf(fs, D.u8path)
            IN  \A i \in Slots :
                    (ents[i].live /\ Names(fs, ents[i].u8path)
                        /\ NodeOf(fs, ents[i].u8path) = Parent(made)) =>
                        \A r \in listFiles(fs, ents[i]) :
                            \E k \in 1..Len(r.files) :
                                EndsWith(r.files[k].path, fromUTF8(LastName(D.u8path)))

\* listFiles has listed a directory with several entries
C5_Witness ==
    /\ last.op = "listFiles"
    /\ isDirectory(fs, ents[last.self])
    /\ Len(last.files) > 1
    /\ handles = 0

\* C8: toStreamIn on a path that does not exist returns null, toStreamOut on a
\* path whose parent directory does not exist returns null, and a call that
\* returns null leaves the filesystem as it found it
C8_StreamsFailWithNull ==
    LET e == ents[last.self]
    IN  /\ (last.op = "toStreamIn" /\ ~exists(last.pre, e)) => ~last.ret
        /\ (last.op = "toStreamOut" /\ ~ParentDirExists(last.pre, e.u8path)) => ~last.ret
        /\ (last.op \in {"toStreamIn", "toStreamOut"} /\ ~last.ret) => fs = last.pre

\* toStreamOut has returned null for a path under a directory that is not there
C8_Witness ==
    /\ last.op = "toStreamOut"
    /\ ents[last.self].u8path = <<SEP, "b", SEP, "a">>
    /\ ~ParentDirExists(last.pre, ents[last.self].u8path)
    /\ ~last.ret
    /\ fs = last.pre

-----------------------------------------------------------------------------
(* Properties of the walk to the parents *)

\* the entity the walk has reached is its own parent
AtFloor ==
    ents[1].live /\ getParentFile(fs, ents[1]).path = ents[1].path

\* C6: from an entity for any path, repeated getParentFile reaches, after
\* finitely many steps, an entity whose own getParentFile has the same path as
\* itself.  What getParentFile returns is a function of the entity's path and
\* of the filesystem, which the walk does not change: a walk that is back at a
\* path it has left, and is not at a floor, repeats itself for ever.  Reaching
\* a floor is the walk never being back at a path it has left
C6_ParentWalkReachesFloor ==
    ents[1].live => (AtFloor \/ ents[1].path \notin walked)

-----------------------------------------------------------------------------
(* Properties of the resource directory *)

\* the executable's path as /proc/self/exe gives it
ExeOf(f) == f[<<PROC, SELF, EXE>>].target

\* C7: when the self-path lookup succeeds, openResourceDirectory returns the
\* entity for the executable's full path with its last component removed, plus
\* "/resource"; when the lookup fails, the entity for the empty path
C7_ResourceDirectoryBesideExecutable ==
    last.op = "openResourceDirectory" =>
        IF <<PROC, SELF, EXE>> \in DOMAIN fs
        THEN ents[last.other] = File_Impl(fs, fromUTF8(ExeDir(ExeOf(fs)) \o RESOURCE))
        ELSE ents[last.other] = File_Impl(fs, <<>>)

-----------------------------------------------------------------------------
(* Properties of the two constructing threads *)

\* C10: under every interleaving, the entity a thread has constructed holds the
\* canonical path of the path that thread opened
C10_ConcurrentOpensDoNotMix ==
    \A t \in Threads : pc[t] = "done" => tout[t] = ToPath(fs, tin[t])

====
